---- MODULE Spec2Model ----
(***************************************************************************)
(* razy-awslogs, `get` sub-command: the paginated log-event retrieval of   *)
(* src/cmd/get.rs and src/cmd/get/stream.rs.                               *)
(*                                                                         *)
(* Two threads of control: the caller of cmd::get::run, and the task that  *)
(* tokio::run drives.  The task polls the unfold stream (one request in    *)
(* flight at a time), hands each yielded page to the printer, and sends    *)
(* one Payload on the mpsc channel when the for_each future resolves.      *)
(*                                                                         *)
(* Option<T> is a sequence of length at most one: None is << >>, Some(x)   *)
(* is <<x>>.                                                               *)
(***************************************************************************)
EXTENDS Integers, Sequences, FiniteSets, TLC

\* ------------------------------------------------------------------ bounds

\* Page requests one run may issue before the model stops following it.
MaxRequests == 4

\* Largest magnitude of the epoch-millisecond inputs given to from_epoch_millis.
MaxMillis == 2500

\* Largest number of events in the page given to print_events on its own.
MaxEvents == 2

\* ------------------------------------------------------------------ values

None == << >>

Some(x) == <<x>>

is_some(o) == o # None

unwrap_or(o, d) == IF o = None THEN d ELSE o[1]

\* Continuation tokens the backend may return; the empty string is a string.
Tokens == {"", "A", "B"}

OptTokens == {None} \cup {Some(t) : t \in Tokens}

\* Raw records as the backend returns them (OutputLogEvent / FilteredLogEvent).
RawEvent(m, t, s) == [message |-> m, timestamp |-> t, log_stream_name |-> s]

Rec1 == RawEvent(Some("m1"), Some(1500), Some("s1"))

Rec2 == RawEvent(Some("m2\n"), Some(0), None)

RecNoMessage == RawEvent(None, Some(0), Some("s1"))

RecNoTimestamp == RawEvent(Some("m1"), None, Some("s1"))

\* The `events` field of a response: Option<Vec<record>>, absent, empty or filled.
GoodEventLists == {None, Some(<< >>), Some(<<Rec1, Rec2>>)}

MalformedEventLists == {Some(<<Rec1, RecNoMessage>>), Some(<<RecNoTimestamp>>)}

\* A successful backend response.
BackendOk == [events : GoodEventLists \cup MalformedEventLists, next_token : OptTokens]

\* A failed backend call: the variant of GetLogEventsError / FilterLogEventsError;
\* for Unknown, whether the HTTP body is valid UTF-8.
BackendErr == [variant : {"HttpDispatch", "ResourceNotFound"}, utf8 : {TRUE}]
                \cup [variant : {"Unknown"}, utf8 : BOOLEAN]

\* DateTime<Utc>: whole seconds since the epoch and the nanoseconds within the second.
DateTime(secs, nanos) == [secs |-> secs, nanos |-> nanos]

\* The time bounds the command line may give: 1970-01-01T00:00:01.5Z and 00:00:02Z.
StartInstant == DateTime(1, 500000000)

EndInstant == DateTime(2, 0)

\* The time range of the command line: unbounded, or bounded at both ends.
TimeRanges == {[start_time |-> None, end_time |-> None],
               [start_time |-> Some(StartInstant), end_time |-> Some(EndInstant)]}

\* What the command line can carry (GetOptions).
OptionSet == {[group_name |-> "g", filter_expression |-> f, stream_name |-> n,
               start_time |-> r.start_time, end_time |-> r.end_time] :
                  f \in {None, Some("f")}, n \in {None, Some("s0")}, r \in TimeRanges}

\* ------------------------------------------------------------ StreamState

Initial == [tag |-> "Initial", token |-> None]

Running(token) == [tag |-> "Running", token |-> token]

Complete == [tag |-> "Complete", token |-> None]

\* ------------------------------------------------------------- conversions

\* DateTime::timestamp(): the whole seconds since the epoch.
timestamp(t) == t.secs

\* LogEventsReadRequest::start_time_value / end_time_value: map(|t| t.timestamp()).
start_time_value(request) ==
    IF request.start_time = None THEN None ELSE Some(timestamp(request.start_time[1]))

end_time_value(request) ==
    IF request.end_time = None THEN None ELSE Some(timestamp(request.end_time[1]))

\* Rust's `/` and `%` on i64 truncate toward zero.
TruncDiv(a, b) == IF a >= 0 THEN a \div b ELSE -((-a) \div b)

TruncRem(a, b) == a - b * TruncDiv(a, b)

\* `x as u32` for an i64 x with |x| < 2^31, as the two 16-bit halves of the result.
AsU32(x) == [hi |-> (x \div 65536) % 65536, lo |-> x % 65536]

\* chrono accepts a nanosecond field below 2_000_000_000 = 30517 * 65536 + 37888.
NanosValid(u) == u.hi < 30517 \/ (u.hi = 30517 /\ u.lo < 37888)

\* from_epoch_millis: Utc.timestamp(secs, nanos) panics when chrono rejects nanos.
from_epoch_millis(epoch_millis) ==
    LET secs  == TruncDiv(epoch_millis, 1000)
        nanos == AsU32(TruncRem(epoch_millis, 1000) * 1000000)
    IN  IF NanosValid(nanos)
        THEN [panic |-> FALSE, secs |-> secs, nanos |-> nanos.hi * 65536 + nanos.lo]
        ELSE [panic |-> TRUE, secs |-> 0, nanos |-> 0]

\* A conversion either panics or produces a value.
Panicked == [panic |-> TRUE, value |-> None]

Value(v) == [panic |-> FALSE, value |-> v]

\* Mutant of LogEvent_from_OutputLogEvent: the event is left without a source
\* stream.
LogEvent_from_OutputLogEvent_untagged(event, stream_name) ==
    IF event.message = None \/ event.timestamp = None
    THEN Panicked
    ELSE LET ts == from_epoch_millis(event.timestamp[1])
         IN  IF ts.panic
             THEN Panicked
             ELSE Value([message     |-> event.message[1],
                         timestamp   |-> [secs |-> ts.secs, nanos |-> ts.nanos],
                         stream_name |-> None])

\* impl From<(OutputLogEvent, String)> for LogEvent
LogEvent_from_OutputLogEvent(event, stream_name) ==
    IF event.message = None \/ event.timestamp = None
    THEN Panicked
    ELSE LET ts == from_epoch_millis(event.timestamp[1])
         IN  IF ts.panic
             THEN Panicked
             ELSE Value([message     |-> event.message[1],
                         timestamp   |-> [secs |-> ts.secs, nanos |-> ts.nanos],
                         stream_name |-> Some(stream_name)])

\* impl From<FilteredLogEvent> for LogEvent
LogEvent_from_FilteredLogEvent(event) ==
    IF event.message = None \/ event.timestamp = None
    THEN Panicked
    ELSE LET ts == from_epoch_millis(event.timestamp[1])
         IN  IF ts.panic
             THEN Panicked
             ELSE Value([message     |-> event.message[1],
                         timestamp   |-> [secs |-> ts.secs, nanos |-> ts.nanos],
                         stream_name |-> event.log_stream_name])

\* Mutant of ReadResponse_from_GetLogEventsResponse: the page's events come out
\* in the reverse of the backend's order.
ReadResponse_from_GetLogEventsResponse_reversed(res, stream_name) ==
    LET raw  == unwrap_or(res.events, << >>)
        conv == [i \in 1..Len(raw) |-> LogEvent_from_OutputLogEvent(raw[i], stream_name)]
    IN  IF \E i \in 1..Len(raw) : conv[i].panic
        THEN Panicked
        ELSE Value([events     |-> [i \in 1..Len(raw) |-> conv[Len(raw) + 1 - i].value],
                    next_token |-> res.next_token])

\* impl From<(GetLogEventsResponse, String)> for LogEventsReadResponse
ReadResponse_from_GetLogEventsResponse(res, stream_name) ==
    LET raw  == unwrap_or(res.events, << >>)
        conv == [i \in 1..Len(raw) |-> LogEvent_from_OutputLogEvent(raw[i], stream_name)]
    IN  IF \E i \in 1..Len(raw) : conv[i].panic
        THEN Panicked
        ELSE Value([events     |-> [i \in 1..Len(raw) |-> conv[i].value],
                    next_token |-> res.next_token])

\* impl From<FilterLogEventsResponse> for LogEventsReadResponse
ReadResponse_from_FilterLogEventsResponse(res) ==
    LET raw  == unwrap_or(res.events, << >>)
        conv == [i \in 1..Len(raw) |-> LogEvent_from_FilteredLogEvent(raw[i])]
    IN  IF \E i \in 1..Len(raw) : conv[i].panic
        THEN Panicked
        ELSE Value([events     |-> [i \in 1..Len(raw) |-> conv[i].value],
                    next_token |-> res.next_token])

\* errors::Error: an ErrorKind and the cause it wraps.
Error(kind, cause) == [kind |-> kind, cause |-> cause]

\* impl From<GetLogEventsError> for errors::Error: Unknown carries an HTTP body
\* that is decoded with expect(); every other variant is wrapped as it is.
Error_from_GetLogEventsError(e) ==
    IF e.variant = "Unknown"
    THEN IF e.utf8
         THEN Value(Error("Rusoto", [of |-> e, shown |-> "body"]))
         ELSE Panicked
    ELSE Value(Error("Rusoto", [of |-> e, shown |-> "error"]))

\* impl From<FilterLogEventsError> for errors::Error
Error_from_FilterLogEventsError(e) ==
    Value(Error("Rusoto", [of |-> e, shown |-> "error"]))

\* ----------------------------------------------------- the unfold closures

\* Mutant of get_has_next: a Complete state starts over.
get_has_next_restarts(st) ==
    CASE st.tag = "Initial"  -> TRUE
      [] st.tag = "Running"  -> is_some(st.token)
      [] st.tag = "Complete" -> TRUE

\* get_log_events_stream, the head of the closure: (has_next, next_token).
get_has_next(st) ==
    CASE st.tag = "Initial"  -> TRUE
      [] st.tag = "Running"  -> is_some(st.token)
      [] st.tag = "Complete" -> FALSE

get_next_token(st) ==
    CASE st.tag = "Initial"  -> None
      [] st.tag = "Running"  -> st.token
      [] st.tag = "Complete" -> None

\* Mutant of get_next_state: the echo of the token just sent is not recognised.
get_next_state_no_echo(next_token, current_token) ==
    IF is_some(next_token)
    THEN Running(Some(next_token[1]))
    ELSE Complete

\* get_log_events_stream, the match on the response's next_forward_token.
get_next_state(next_token, current_token) ==
    IF is_some(next_token) /\ next_token[1] = current_token
    THEN Complete
    ELSE IF is_some(next_token)
         THEN Running(Some(next_token[1]))
         ELSE Complete

\* filter_log_events_stream, the head of the closure.
filter_has_next(st) ==
    CASE st.tag = "Initial"  -> TRUE
      [] st.tag = "Running"  -> is_some(st.token)
      [] st.tag = "Complete" -> FALSE

filter_next_token(st) ==
    CASE st.tag = "Initial"  -> None
      [] st.tag = "Running"  -> st.token
      [] st.tag = "Complete" -> None

\* Mutant of filter_next_state: an absent token is carried on as an empty one.
filter_next_state_absent_as_empty(next_token, current_token) ==
    IF is_some(next_token) /\ next_token[1] = current_token
    THEN Complete
    ELSE Running(Some(unwrap_or(next_token, "")))

\* filter_log_events_stream, the match on the response's next_token.
filter_next_state(next_token, current_token) ==
    IF is_some(next_token) /\ next_token[1] = current_token
    THEN Complete
    ELSE IF is_some(next_token)
         THEN Running(Some(next_token[1]))
         ELSE Complete

\* ------------------------------------------------------------------ state

VARIABLES
    options,        \* GetOptions: filter_expression, stream_name
    callerPc,       \* where the caller of cmd::get::run is
    taskPc,         \* where the task driven by tokio::run is
    reader,         \* the stream create_log_events_stream built, and what it captured
    state,          \* the StreamState the unfold holds
    current_token,  \* the closure's current_token for the request in flight
    inflight,       \* page requests awaiting the backend's answer
    requests,       \* every page request issued, in order
    responses,      \* every backend answer, in order
    yielded,        \* every page the stream yielded, in order
    streamEnded,    \* the stream reported its end (the closure returned None)
    written,        \* every print_events call: the events it was given, in order
    runnerResult,   \* the outcome of the Runner's for_each future, once resolved
    chan,           \* Payloads in the mpsc channel
    sent,           \* every Payload ever sent
    senders,        \* the live Sender handles
    result,         \* what run returned, once it has
    stderr,         \* the errors handle_error printed to the error stream
    exit_status,    \* the status the process exited with, once it has
    probe           \* the input and output of a function applied on its own

vars == <<options, callerPc, taskPc, reader, state, current_token, inflight, requests,
          responses, yielded, streamEnded, written, runnerResult, chan, sent, senders,
          result, stderr, exit_status, probe>>

callerVars == <<callerPc, result, stderr, exit_status>>

\* No function is being applied on its own.
NoProbe == [fn |-> "none"]

streamVars == <<state, current_token, inflight, requests, responses, yielded, streamEnded>>

Ok == [ok |-> TRUE, e |-> None]

Err(e) == [ok |-> FALSE, e |-> Some(e)]

Done == [tag |-> "Done", e |-> None]

Failure(e) == [tag |-> "Failure", e |-> Some(e)]

NoRequest == [start_time |-> None, end_time |-> None]

NoReader == [kind |-> "none", group_name |-> "", stream_name |-> None,
             stream_names |-> None, filter_expression |-> None, request |-> NoRequest]

Init ==
    /\ options \in OptionSet
    /\ callerPc = "start"
    /\ taskPc = "idle"
    /\ reader = NoReader
    /\ state = Initial
    /\ current_token = ""
    /\ inflight = 0
    /\ requests = << >>
    /\ responses = << >>
    /\ yielded = << >>
    /\ streamEnded = FALSE
    /\ written = << >>
    /\ runnerResult = None
    /\ chan = << >>
    /\ sent = << >>
    /\ senders = {}
    /\ result = None
    /\ stderr = << >>
    /\ exit_status = None
    /\ probe = NoProbe

\* The variables of the running program, which a function applied on its own
\* leaves alone.
programVars == <<options, callerVars, taskPc, reader, streamVars, written, runnerResult, chan,
                 sent, senders>>

\* The program before run is called, for a function applied on its own.
ProgramIdle ==
    /\ options = [group_name |-> "g", filter_expression |-> None, stream_name |-> None,
                  start_time |-> None, end_time |-> None]
    /\ callerPc = "start"
    /\ taskPc = "idle"
    /\ reader = NoReader
    /\ state = Initial
    /\ current_token = ""
    /\ inflight = 0
    /\ requests = << >>
    /\ responses = << >>
    /\ yielded = << >>
    /\ streamEnded = FALSE
    /\ written = << >>
    /\ runnerResult = None
    /\ chan = << >>
    /\ sent = << >>
    /\ senders = {}
    /\ result = None
    /\ stderr = << >>
    /\ exit_status = None

\* ------------------------------------------------------- from_epoch_millis

\* DateTime::timestamp_millis of the instant from_epoch_millis built.
timestamp_millis(t) == t.secs * 1000 + t.nanos \div 1000000

\* The epoch-millisecond integers a record's timestamp is drawn from.
InitTime ==
    /\ ProgramIdle
    /\ probe \in {[fn |-> "input", m |-> m] : m \in (-MaxMillis)..MaxMillis}

\* from_epoch_millis is applied to the input, twice.
CallFromEpochMillis ==
    /\ probe.fn = "input"
    /\ probe' = [fn |-> "from_epoch_millis", m |-> probe.m,
                 out |-> from_epoch_millis(probe.m),
                 again |-> from_epoch_millis(probe.m)]
    /\ UNCHANGED programVars

NextTime == CallFromEpochMillis

SpecTime == InitTime /\ [][NextTime]_vars

\* ------------------------------------------------------------ cmd::get::printer

\* A text is the sequence of its characters; ESC stands for the escape character.
Digit(d) == <<"0", "1", "2", "3", "4", "5", "6", "7", "8", "9">>[d + 1]

\* {:02} and {:04} of a number.
Pad2(n) == <<Digit((n \div 10) % 10), Digit(n % 10)>>

Pad4(n) == <<Digit((n \div 1000) % 10), Digit((n \div 100) % 10)>> \o Pad2(n % 100)

\* TZ_ASIA_TOKYO: FixedOffset::east(9 * 60 * 60), in seconds.
TZ_ASIA_TOKYO == 9 * 60 * 60

\* The calendar date of a day number counted from 1970-01-01 (proleptic
\* Gregorian calendar, as chrono's NaiveDate).
civil_from_days(days) ==
    LET z   == days + 719468
        era == z \div 146097
        doe == z - era * 146097
        yoe == (doe - doe \div 1460 + doe \div 36524 - doe \div 146096) \div 365
        doy == doe - (365 * yoe + yoe \div 4 - yoe \div 100)
        mp  == (5 * doy + 2) \div 153
        m   == IF mp < 10 THEN mp + 3 ELSE mp - 9
    IN  [year  |-> yoe + era * 400 + (IF m <= 2 THEN 1 ELSE 0),
         month |-> m,
         day   |-> doy - (153 * mp + 2) \div 5 + 1]

\* timestamp.with_timezone(&tz): the local date and time of the instant in a
\* zone `offset` seconds east of UTC.
with_timezone(t, offset) ==
    LET local == t.secs + offset
        date  == civil_from_days(local \div 86400)
        sod   == local % 86400
    IN  [year |-> date.year, month |-> date.month, day |-> date.day,
         hour |-> sod \div 3600, minute |-> (sod \div 60) % 60, second |-> sod % 60]

\* .format("%Y-%m-%d %H:%M:%S")
format_datetime(l) ==
    Pad4(l.year) \o <<"-">> \o Pad2(l.month) \o <<"-">> \o Pad2(l.day) \o <<" ">>
        \o Pad2(l.hour) \o <<":">> \o Pad2(l.minute) \o <<":">> \o Pad2(l.second)

\* text.ends_with("\n")
ends_with_newline(text) == Len(text) > 0 /\ text[Len(text)] = "\n"

\* Mutant of puts: println! for every text.
puts_always_println(text) == text \o <<"\n">>

\* Printer::puts: what the call writes to standard output, print! for a text
\* that ends with a newline and println! otherwise.
puts(text) == IF ends_with_newline(text) THEN text ELSE text \o <<"\n">>

\* MessagePrinter::print_events: the texts written, one puts per event.
MessagePrinter_print_events(events) ==
    [i \in 1..Len(events) |-> puts(events[i].message)]

\* LogPrinter::decorate: Color::Green.paint(text) when colour is enabled.
decorate(enable_color, text) ==
    IF enable_color
    THEN <<"ESC", "[", "3", "2", "m">> \o text \o <<"ESC", "[", "0", "m">>
    ELSE text

\* Mutant of LogPrinter_prefix: the timestamp is formatted in UTC.
LogPrinter_prefix_utc(enable_color, event) ==
    decorate(enable_color,
             <<"[">> \o format_datetime(with_timezone(event.timestamp, 0)) \o <<"]">>)

\* LogPrinter::print_events, the prefix of one event.
LogPrinter_prefix(enable_color, event) ==
    decorate(enable_color,
             <<"[">> \o format_datetime(with_timezone(event.timestamp, TZ_ASIA_TOKYO))
                 \o <<"]">>)

\* LogPrinter::print_events: the texts written, one puts per event.
LogPrinter_print_events(enable_color, events) ==
    [i \in 1..Len(events) |->
        puts(LogPrinter_prefix(enable_color, events[i]) \o <<" ">> \o events[i].message)]

\* The messages given to the printers: without a newline, with a trailing
\* newline, empty, a lone newline, with an inner newline, with two trailing
\* newlines.
Hello == <<"h", "e", "l", "l", "o">>

Messages ==
    {Hello, <<"h", "i", "\n">>, << >>, <<"\n">>, <<"a", "\n", "b">>,
     <<"a", "\n", "b", "\n">>, <<"a", "\n", "\n">>}

\* UTC instants as epoch seconds: 2023-01-01T00:00:00Z, the epoch, the seconds
\* around the local midnight of ordinary days, month ends, year ends and leap
\* days, and instants before the epoch.
Instants ==
    {1672531200, 0, 1672585199, 1672585200, 1675177199, 1675177200, 1672498799,
     1672498800, 1709132400, 1677596400, 951750000, -32400, -32401, -86400}

\* The events given to the printers.
SinkEvents ==
    {[message |-> m, timestamp |-> DateTime(1672531200, 0), stream_name |-> None] :
        m \in Messages}
    \cup {[message |-> Hello, timestamp |-> DateTime(t, 0), stream_name |-> None] :
            t \in Instants}

SinkPages == UNION {[1..n -> SinkEvents] : n \in 0..MaxEvents}

\* A page of events and the options create_printer and LogPrinter::default read.
InitSink ==
    /\ ProgramIdle
    /\ probe \in {[fn |-> "input", use_prefix |-> p, enable_color |-> c, events |-> evs] :
                    p \in BOOLEAN, c \in BOOLEAN, evs \in SinkPages}

\* create_printer without use_prefix: MessagePrinter prints the page.
PrintBare ==
    /\ probe.fn = "input"
    /\ ~probe.use_prefix
    /\ probe' = [fn |-> "print_events", use_prefix |-> FALSE,
                 enable_color |-> probe.enable_color, events |-> probe.events,
                 emitted |-> MessagePrinter_print_events(probe.events)]
    /\ UNCHANGED programVars

\* create_printer with use_prefix: LogPrinter prints the page.
PrintPrefixed ==
    /\ probe.fn = "input"
    /\ probe.use_prefix
    /\ probe' = [fn |-> "print_events", use_prefix |-> TRUE,
                 enable_color |-> probe.enable_color, events |-> probe.events,
                 emitted |-> LogPrinter_print_events(probe.enable_color, probe.events)]
    /\ UNCHANGED programVars

NextSink == PrintBare \/ PrintPrefixed

SpecSink == InitSink /\ [][NextSink]_vars

\* ------------------------------------------- the two streams, side by side

\* One stream driven on its own: its unfold state, the closure's current_token,
\* the tokens of the requests it issued, the pages it yielded, and how it ended
\* ("running" until then; "ended", "error", or "panicked").
NewSide ==
    [state |-> Initial, current_token |-> "", tokens |-> << >>, pages |-> 0,
     outcome |-> "running", awaiting |-> FALSE]

\* The stream is polled: the closure issues a request or ends the stream.
side_poll(kind, sd) ==
    LET hn  == IF kind = "get" THEN get_has_next(sd.state) ELSE filter_has_next(sd.state)
        tok == IF kind = "get" THEN get_next_token(sd.state)
               ELSE filter_next_token(sd.state)
    IN  IF sd.outcome # "running" \/ sd.awaiting
        THEN sd
        ELSE IF hn
             THEN [sd EXCEPT !.current_token = unwrap_or(tok, ""),
                             !.tokens = Append(sd.tokens, tok),
                             !.awaiting = TRUE]
             ELSE [sd EXCEPT !.outcome = "ended"]

\* The stream's request succeeds with `res`: the .map closure.
side_ok(kind, sd, res) ==
    LET next_state == IF kind = "get"
                      THEN get_next_state(res.next_token, sd.current_token)
                      ELSE filter_next_state(res.next_token, sd.current_token)
        item == IF kind = "get"
                THEN ReadResponse_from_GetLogEventsResponse(res, "s0")
                ELSE ReadResponse_from_FilterLogEventsResponse(res)
    IN  IF ~sd.awaiting
        THEN sd
        ELSE IF item.panic
             THEN [sd EXCEPT !.outcome = "panicked", !.awaiting = FALSE]
             ELSE [sd EXCEPT !.state = next_state, !.pages = sd.pages + 1,
                             !.awaiting = FALSE]

\* The stream's request fails with `e`: the .map_err closure.
side_err(kind, sd, e) ==
    LET raised == [variant |-> e.variant, utf8 |-> e.utf8, id |-> Len(sd.tokens)]
        conv   == IF kind = "get"
                  THEN Error_from_GetLogEventsError(raised)
                  ELSE Error_from_FilterLogEventsError(raised)
    IN  IF ~sd.awaiting
        THEN sd
        ELSE IF conv.panic
             THEN [sd EXCEPT !.outcome = "panicked", !.awaiting = FALSE]
             ELSE [sd EXCEPT !.outcome = "error", !.awaiting = FALSE]

\* A sequential and a filtered stream, both new, and the answers the backend
\* has given so far (success with its token, or failure).
InitPair ==
    /\ ProgramIdle
    /\ probe = [fn |-> "pair", answers |-> << >>, get |-> NewSide, filter |-> NewSide]

\* Both streams are polled.
PairPoll ==
    /\ probe.fn = "pair"
    /\ ~probe.get.awaiting /\ ~probe.filter.awaiting
    /\ probe.get.outcome = "running" \/ probe.filter.outcome = "running"
    /\ Len(probe.get.tokens) < MaxRequests /\ Len(probe.filter.tokens) < MaxRequests
    /\ probe' = [fn |-> "pair", answers |-> probe.answers,
                 get |-> side_poll("get", probe.get),
                 filter |-> side_poll("filter", probe.filter)]
    /\ UNCHANGED programVars

\* The backend answers the request of each waiting stream with the same success.
PairOkStep(res) ==
    /\ probe.fn = "pair"
    /\ probe.get.awaiting \/ probe.filter.awaiting
    /\ probe' = [fn |-> "pair",
                 answers |-> Append(probe.answers, [ok |-> TRUE, token |-> res.next_token]),
                 get |-> side_ok("get", probe.get, res),
                 filter |-> side_ok("filter", probe.filter, res)]
    /\ UNCHANGED programVars

\* The backend answers the request of each waiting stream with the same failure.
PairErrStep(e) ==
    /\ probe.fn = "pair"
    /\ probe.get.awaiting \/ probe.filter.awaiting
    /\ probe' = [fn |-> "pair",
                 answers |-> Append(probe.answers, [ok |-> FALSE, token |-> None]),
                 get |-> side_err("get", probe.get, e),
                 filter |-> side_err("filter", probe.filter, e)]
    /\ UNCHANGED programVars

NextPair ==
    \/ PairPoll
    \/ \E res \in BackendOk : PairOkStep(res)
    \/ \E e \in BackendErr : PairErrStep(e)

SpecPair == InitPair /\ [][NextPair]_vars

\* ---------------------------------------------------------------- cmd::get

\* A cause that is not a backend error: a format_err! message, a RecvError.
LocalCause(what) == [of |-> [variant |-> what, utf8 |-> TRUE, id |-> 0], shown |-> "error"]

\* Mutant of create_log_events_stream: a missing stream name defaults to the
\* empty name instead of failing.
create_log_events_stream_defaults_stream(opts) ==
    LET request == [start_time |-> opts.start_time, end_time |-> opts.end_time]
    IN  IF is_some(opts.filter_expression)
        THEN [ok |-> TRUE, error |-> None,
              stream |-> [kind |-> "filter", group_name |-> opts.group_name,
                          stream_name |-> None, stream_names |-> None,
                          filter_expression |-> opts.filter_expression,
                          request |-> request]]
        ELSE [ok |-> TRUE, error |-> None,
              stream |-> [kind |-> "get", group_name |-> opts.group_name,
                          stream_name |-> Some(unwrap_or(opts.stream_name, "")),
                          stream_names |-> None,
                          filter_expression |-> None, request |-> request]]

\* Mutant of create_log_events_stream: a stream name, when given, selects the
\* sequential stream even beside a filter expression.
create_log_events_stream_prefers_stream(opts) ==
    LET request == [start_time |-> opts.start_time, end_time |-> opts.end_time]
    IN  IF is_some(opts.stream_name)
        THEN [ok |-> TRUE, error |-> None,
              stream |-> [kind |-> "get", group_name |-> opts.group_name,
                          stream_name |-> opts.stream_name, stream_names |-> None,
                          filter_expression |-> None, request |-> request]]
        ELSE IF is_some(opts.filter_expression)
             THEN [ok |-> TRUE, error |-> None,
                   stream |-> [kind |-> "filter", group_name |-> opts.group_name,
                               stream_name |-> None, stream_names |-> None,
                               filter_expression |-> opts.filter_expression,
                               request |-> request]]
             ELSE [ok |-> FALSE, stream |-> NoReader,
                   error |-> Some(Error("InsufficientArguments",
                                        LocalCause("format_err")))]

\* create_log_events_stream: a filter expression selects the filtered stream
\* (with no stream set), otherwise the stream name is required.
create_log_events_stream(opts) ==
    LET request == [start_time |-> opts.start_time, end_time |-> opts.end_time]
    IN  IF is_some(opts.filter_expression)
        THEN [ok |-> TRUE, error |-> None,
              stream |-> [kind |-> "filter", group_name |-> opts.group_name,
                          stream_name |-> None, stream_names |-> None,
                          filter_expression |-> opts.filter_expression,
                          request |-> request]]
        ELSE IF opts.stream_name = None
             THEN [ok |-> FALSE, stream |-> NoReader,
                   error |-> Some(Error("InsufficientArguments",
                                        LocalCause("format_err")))]
             ELSE [ok |-> TRUE, error |-> None,
                   stream |-> [kind |-> "get", group_name |-> opts.group_name,
                               stream_name |-> opts.stream_name, stream_names |-> None,
                               filter_expression |-> None, request |-> request]]

\* run, up to `create_log_events_stream(client, &options)?`.
RunCreateStream ==
    /\ callerPc = "start"
    /\ LET made == create_log_events_stream(options)
       IN  IF made.ok
           THEN /\ callerPc' = "spawn"
                /\ result' = result
                /\ reader' = made.stream
           ELSE /\ callerPc' = "returned"
                /\ result' = Some(Err(made.error[1]))
                /\ reader' = reader
    /\ UNCHANGED <<options, probe, taskPc, streamVars, written, runnerResult, chan, sent,
                   senders, stderr, exit_status>>

\* run: the channel and the two clones of its sender, the future, tokio::run(f).
RunSpawn ==
    /\ callerPc = "spawn"
    /\ senders' = {"sender", "sender_ok", "sender_err"}
    /\ taskPc' = "poll"
    /\ callerPc' = "tokio_run"
    /\ UNCHANGED <<options, probe, reader, streamVars, written, runnerResult, chan, sent,
                   result, stderr, exit_status>>

\* ------------------------------------------------------ the pagination stream

\* The closure's head, by the stream that was built.
has_next(st) == IF reader.kind = "get" THEN get_has_next(st) ELSE filter_has_next(st)

next_token_of(st) == IF reader.kind = "get" THEN get_next_token(st) ELSE filter_next_token(st)

\* Mutant of get_request: only the first request carries the time bounds.
get_request_bounds_first_only(tok) ==
    [op |-> "GetLogEvents",
     start_time |-> IF tok = None THEN start_time_value(reader.request) ELSE None,
     end_time |-> IF tok = None THEN end_time_value(reader.request) ELSE None,
     log_group_name |-> reader.group_name,
     log_stream_name |-> reader.stream_name,
     log_stream_names |-> None, filter_pattern |-> None, next_token |-> tok]

\* GetLogEventsRequest { .. } of get_log_events_stream.
get_request(tok) ==
    [op |-> "GetLogEvents",
     start_time |-> start_time_value(reader.request),
     end_time |-> end_time_value(reader.request),
     log_group_name |-> reader.group_name,
     log_stream_name |-> reader.stream_name,
     log_stream_names |-> None, filter_pattern |-> None, next_token |-> tok]

\* Mutant of filter_request: a supplied stream name narrows the search.
filter_request_narrowed(tok) ==
    [op |-> "FilterLogEvents",
     log_group_name |-> reader.group_name,
     log_stream_name |-> None,
     log_stream_names |-> IF is_some(options.stream_name)
                          THEN Some(<<options.stream_name[1]>>)
                          ELSE reader.stream_names,
     start_time |-> start_time_value(reader.request),
     end_time |-> end_time_value(reader.request),
     filter_pattern |-> Some(reader.filter_expression[1]), next_token |-> tok]

\* FilterLogEventsRequest { .. } of filter_log_events_stream.
filter_request(tok) ==
    [op |-> "FilterLogEvents",
     log_group_name |-> reader.group_name,
     log_stream_name |-> None,
     log_stream_names |-> reader.stream_names,
     start_time |-> start_time_value(reader.request),
     end_time |-> end_time_value(reader.request),
     filter_pattern |-> Some(reader.filter_expression[1]), next_token |-> tok]

\* What dropping the task's future releases: the two Sender clones it captured.
TaskSenders == {"sender_ok", "sender_err"}

\* for_each polls the stream; the unfold calls the closure with its state.  With
\* has_next the closure builds the request and the client call is in flight;
\* otherwise the closure returns None, the stream ends and for_each resolves Ok.
StreamPoll ==
    /\ taskPc = "poll"
    /\ IF has_next(state)
       THEN /\ Len(requests) < MaxRequests
            /\ current_token' = unwrap_or(next_token_of(state), "")
            /\ requests' = Append(requests,
                                  IF reader.kind = "get"
                                  THEN get_request(next_token_of(state))
                                  ELSE filter_request(next_token_of(state)))
            /\ inflight' = inflight + 1
            /\ taskPc' = "await"
            /\ UNCHANGED <<streamEnded, runnerResult>>
       ELSE /\ streamEnded' = TRUE
            /\ runnerResult' = Some(Ok)
            /\ taskPc' = "resolved"
            /\ UNCHANGED <<current_token, requests, inflight>>
    /\ UNCHANGED <<options, probe, callerVars, reader, state, responses, yielded, written, chan,
                   sent, senders>>

\* Mutant of BackendOkStep: a response token that any request of the run has
\* already carried completes the stream.
BackendOkStepSeenTokens(res) ==
    /\ taskPc = "await"
    /\ LET seen == \E i \in 1..Len(requests) : requests[i].next_token = res.next_token
           next_state == IF is_some(res.next_token) /\ ~seen
                         THEN Running(res.next_token)
                         ELSE Complete
           item == IF reader.kind = "get"
                   THEN ReadResponse_from_GetLogEventsResponse(res, reader.stream_name[1])
                   ELSE ReadResponse_from_FilterLogEventsResponse(res)
       IN  /\ responses' = Append(responses,
                                  [ok |-> TRUE, page |-> ~item.panic,
                                   next_token |-> res.next_token, events |-> res.events,
                                   error |-> None])
           /\ inflight' = inflight - 1
           /\ IF item.panic
              THEN /\ taskPc' = "panicked"
                   /\ senders' = senders \ TaskSenders
                   /\ UNCHANGED <<state, yielded>>
              ELSE /\ taskPc' = "print"
                   /\ state' = next_state
                   /\ yielded' = Append(yielded, item.value)
                   /\ senders' = senders
    /\ UNCHANGED <<options, probe, callerVars, reader, current_token, requests, streamEnded,
                   written, runnerResult, chan, sent>>

\* The client call succeeds with `res`: the .map closure computes the next state
\* from the response's token and current_token, converts the response, and the
\* unfold yields the page and keeps the next state.  A record the conversion
\* cannot unwrap panics inside the task.
BackendOkStep(res) ==
    /\ taskPc = "await"
    /\ LET next_state == IF reader.kind = "get"
                         THEN get_next_state(res.next_token, current_token)
                         ELSE filter_next_state(res.next_token, current_token)
           item == IF reader.kind = "get"
                   THEN ReadResponse_from_GetLogEventsResponse(res, reader.stream_name[1])
                   ELSE ReadResponse_from_FilterLogEventsResponse(res)
       IN  /\ responses' = Append(responses,
                                  [ok |-> TRUE, page |-> ~item.panic,
                                   next_token |-> res.next_token, events |-> res.events,
                                   error |-> None])
           /\ inflight' = inflight - 1
           /\ IF item.panic
              THEN /\ taskPc' = "panicked"
                   /\ senders' = senders \ TaskSenders
                   /\ UNCHANGED <<state, yielded>>
              ELSE /\ taskPc' = "print"
                   /\ state' = next_state
                   /\ yielded' = Append(yielded, item.value)
                   /\ senders' = senders
    /\ UNCHANGED <<options, probe, callerVars, reader, current_token, requests, streamEnded,
                   written, runnerResult, chan, sent>>

\* The client call fails with `e`: .map_err converts it, the stream yields the
\* error and for_each resolves with it.  The conversion of an Unknown error
\* whose body is not UTF-8 panics inside the task.
BackendErrStep(e) ==
    /\ taskPc = "await"
    /\ LET raised == [variant |-> e.variant, utf8 |-> e.utf8, id |-> Len(requests)]
           conv   == IF reader.kind = "get"
                     THEN Error_from_GetLogEventsError(raised)
                     ELSE Error_from_FilterLogEventsError(raised)
       IN  /\ responses' = Append(responses,
                                  [ok |-> FALSE, page |-> FALSE, next_token |-> None,
                                   events |-> None, error |-> Some(raised)])
           /\ inflight' = inflight - 1
           /\ IF conv.panic
              THEN /\ taskPc' = "panicked"
                   /\ senders' = senders \ TaskSenders
                   /\ runnerResult' = runnerResult
              ELSE /\ taskPc' = "resolved"
                   /\ runnerResult' = Some(Err(conv.value))
                   /\ senders' = senders
    /\ UNCHANGED <<options, probe, callerVars, reader, state, current_token, requests, yielded,
                   streamEnded, written, chan, sent>>

\* Mutant of PrintEvents: the page that completes the stream is not printed.
PrintEventsSkipsLastPage ==
    /\ taskPc = "print"
    /\ written' = IF state.tag = "Complete"
                  THEN written
                  ELSE Append(written, yielded[Len(yielded)].events)
    /\ taskPc' = "poll"
    /\ UNCHANGED <<options, probe, callerVars, reader, streamVars, runnerResult, chan, sent,
                   senders>>

\* OneShotRunner::run, the for_each closure: the page's events go to the printer.
PrintEvents ==
    /\ taskPc = "print"
    /\ written' = Append(written, yielded[Len(yielded)].events)
    /\ taskPc' = "poll"
    /\ UNCHANGED <<options, probe, callerVars, reader, streamVars, runnerResult, chan, sent,
                   senders>>

\* ------------------------------------------------------ the execution bridge

\* run, the map_err / map closures: Failure(e) for an error, Done for success.
outcome_payload(r) == IF r.ok THEN Done ELSE Failure(r.e[1])

\* run, the match on the received Payload.
payload_result(p) == IF p.tag = "Done" THEN Ok ELSE Err(p.e[1])

\* The Runner's future has resolved: exactly one of the two closures runs and
\* sends; the task is complete and its future, with the two clones, is dropped.
SendOutcome ==
    /\ taskPc = "resolved"
    /\ chan' = Append(chan, outcome_payload(runnerResult[1]))
    /\ sent' = Append(sent, outcome_payload(runnerResult[1]))
    /\ senders' = senders \ TaskSenders
    /\ taskPc' = "done"
    /\ UNCHANGED <<options, probe, callerVars, reader, streamVars, written, runnerResult>>

\* tokio::run returns once the runtime is idle: the task completed, or it
\* panicked and was dropped.
TokioRunReturns ==
    /\ callerPc = "tokio_run"
    /\ taskPc \in {"done", "panicked"}
    /\ callerPc' = "recv"
    /\ UNCHANGED <<options, probe, taskPc, reader, streamVars, written, runnerResult, chan,
                   sent, senders, result, stderr, exit_status>>

\* Mutant of recv_ready: the receive never blocks (try_recv).
recv_ready_never_blocks == TRUE

\* receiver.recv() returns a message when one is queued, fails when the channel
\* is empty and every Sender has been dropped, and blocks otherwise.
recv_ready == chan # << >> \/ senders = {}

\* run, `receiver.recv().context(SyncChannel)?` and the match on the Payload;
\* returning drops `sender` and the receiver.
Recv ==
    /\ callerPc = "recv"
    /\ recv_ready
    /\ IF chan # << >>
       THEN /\ result' = Some(payload_result(Head(chan)))
            /\ chan' = Tail(chan)
       ELSE /\ result' = Some(Err(Error("SyncChannel", LocalCause("RecvError"))))
            /\ chan' = chan
    /\ senders' = {}
    /\ callerPc' = "returned"
    /\ UNCHANGED <<options, probe, taskPc, reader, streamVars, written, runnerResult, sent,
                   stderr, exit_status>>

\* main: app::main has returned what run returned.  Ok falls through; an error
\* goes to handle_error, which prints it to the error stream; then main returns.
main_exit_status(r) == IF r.ok THEN 0 ELSE 0

MainReturns ==
    /\ callerPc = "returned"
    /\ stderr' = IF result[1].ok THEN stderr ELSE Append(stderr, result[1].e[1])
    /\ exit_status' = Some(main_exit_status(result[1]))
    /\ callerPc' = "exited"
    /\ UNCHANGED <<options, probe, taskPc, reader, streamVars, written, runnerResult, chan,
                   sent, senders, result>>

\* ------------------------------------------------------------ specification

Next ==
    \/ RunCreateStream
    \/ RunSpawn
    \/ StreamPoll
    \/ \E res \in BackendOk : BackendOkStep(res)
    \/ \E e \in BackendErr : BackendErrStep(e)
    \/ PrintEvents
    \/ SendOutcome
    \/ TokioRunReturns
    \/ Recv
    \/ MainReturns

Spec == Init /\ [][Next]_vars

\* ----------------------------------------------------------------- claims

\* Response n was turned into a page, and its token is the one request n carried.
EchoAt(n) ==
    /\ responses[n].page
    /\ is_some(responses[n].next_token)
    /\ responses[n].next_token = requests[n].next_token

\* The stream has ended or is about to: the page is with the consumer, and the
\* next poll finds the Complete state.
EndsAfter(n) ==
    /\ Len(requests) = n
    /\ Len(yielded) = n
    /\ inflight = 0
    /\ state = Complete
    /\ taskPc \in {"print", "poll"} \/ streamEnded

\* C1: echo termination.  When the N-th response is a page whose token equals the
\* token sent in the N-th request, the stream has yielded exactly N pages, no
\* (N+1)-th request is ever issued and the stream ends; in both streams.
C1_EchoTermination ==
    \A n \in 1..Len(responses) : EchoAt(n) => EndsAfter(n)

\* C1 witness: the filtered stream ended on the echo of the third request's token.
C1_Witness ==
    /\ reader.kind = "filter"
    /\ Len(responses) = 3
    /\ EchoAt(3)
    /\ streamEnded
    /\ callerPc = "returned"

\* C2: termination by absence.  When a response that became a page carries no
\* token, the stream has yielded that page, issues no further request and ends,
\* whatever tokens went before.
C2_AbsentTokenEnds ==
    \A n \in 1..Len(responses) :
        (responses[n].page /\ responses[n].next_token = None) => EndsAfter(n)

\* C2 witness: tokens A and B were received, then a page with no token ended the
\* filtered stream.
C2_Witness ==
    /\ reader.kind = "filter"
    /\ Len(responses) = 3
    /\ responses[1].next_token = Some("A")
    /\ responses[2].next_token = Some("B")
    /\ responses[3].page
    /\ responses[3].next_token = None
    /\ streamEnded

\* C3: the first request carries no token, so a first page with any present
\* token t, the empty string included, leaves the stream Running(t) and the
\* second request carries t; the stream does not end after the first page.
C3_FirstTokenContinues ==
    (Len(yielded) >= 1 /\ is_some(yielded[1].next_token)) =>
        /\ requests[1].next_token = None
        /\ Len(requests) = 1 => (state = Running(yielded[1].next_token) /\ ~streamEnded)
        /\ Len(requests) >= 2 => requests[2].next_token = yielded[1].next_token

\* The stream is exhausted: it found or reached Complete, or its last request failed.
Exhausted ==
    \/ state = Complete
    \/ streamEnded
    \/ Len(responses) > 0 /\ ~responses[Len(responses)].ok

\* C4: Exhausted is absorbing.  From an exhausted stream no step issues a request,
\* yields a page or an error, or changes the stream's state, however the consumer
\* and the rest of the run go on.
C4_ExhaustedAbsorbing ==
    [][Exhausted =>
         /\ Exhausted'
         /\ requests' = requests
         /\ inflight' = inflight
         /\ responses' = responses
         /\ yielded' = yielded
         /\ state' = state]_vars

\* C4 witness: the consumer asked again after the last page, found the stream
\* ended, and the run went on to its return.
C4_Witness ==
    /\ state = Complete
    /\ streamEnded
    /\ Len(yielded) = 2
    /\ callerPc = "returned"

\* The messages of the records of a response, and of the events of a write.
RawMessages(events) ==
    LET raw == unwrap_or(events, << >>)
    IN  [j \in 1..Len(raw) |-> raw[j].message]

WrittenMessages(evs) == [j \in 1..Len(evs) |-> Some(evs[j].message)]

\* errors::Error `err` is the failure of response k, under ErrorKind::Rusoto.
IsErrorOf(err, k) ==
    /\ err.kind = "Rusoto"
    /\ err.cause.of = responses[k].error[1]

\* C5: error short-circuit.  When the k-th request is the first to fail, the
\* Runner's result is that error, and the sink has received exactly k-1 writes,
\* one for each of pages 1..k-1 in order, and never another.
C5_ErrorShortCircuit ==
    \A k \in 1..Len(responses) :
        ~responses[k].ok =>
            /\ runnerResult # None
            /\ ~runnerResult[1].ok
            /\ IsErrorOf(runnerResult[1].e[1], k)
            /\ Len(written) = k - 1
            /\ \A i \in 1..(k - 1) :
                   WrittenMessages(written[i]) = RawMessages(responses[i].events)

\* C6: no retry.  In a run whose k-th request fails exactly k requests are issued,
\* and the error the caller of run receives and returns is the error of that
\* k-th request.
C6_NoRetry ==
    \A k \in 1..Len(responses) :
        ~responses[k].ok =>
            /\ Len(requests) = k
            /\ Len(responses) = k
            /\ callerPc = "recv" =>
                   /\ Len(chan) = 1
                   /\ chan[1].tag = "Failure"
                   /\ IsErrorOf(chan[1].e[1], k)
            /\ callerPc = "returned" =>
                   /\ result # None
                   /\ ~result[1].ok
                   /\ IsErrorOf(result[1].e[1], k)

\* The responses began with two pages carrying tokens A and A.
ScenarioAA ==
    /\ Len(responses) >= 2
    /\ responses[1].page /\ responses[1].next_token = Some("A")
    /\ responses[2].page /\ responses[2].next_token = Some("A")

\* C7: successful run.  When the stream has ended after N pages, every one of the
\* N requests succeeded, the sink was written N times, the Runner's result and
\* the value run returns are success; for response tokens A then A the requests
\* carried None then A and there are 2 writes.
C7_SuccessfulRun ==
    /\ streamEnded =>
           /\ Len(requests) = Len(yielded)
           /\ Len(responses) = Len(yielded)
           /\ Len(written) = Len(yielded)
           /\ \A i \in 1..Len(responses) : responses[i].page
           /\ runnerResult = Some(Ok)
           /\ taskPc = "done" => sent = <<Done>>
           /\ callerPc = "returned" => result = Some(Ok)
    /\ ScenarioAA =>
           /\ Len(requests) = 2
           /\ requests[1].next_token = None
           /\ requests[2].next_token = Some("A")
           /\ streamEnded => Len(written) = 2

\* C7 witness: tokens A then A, two writes, and run has returned success.
C7_Witness ==
    /\ ScenarioAA
    /\ Len(written) = 2
    /\ callerPc = "returned"
    /\ result = Some(Ok)

\* C8: no read-ahead.  At most one request is in flight, request k+1 is issued
\* only after page k went to the sink, and the sink receives the events of each
\* page in the backend's order.
C8_NoReadAhead ==
    /\ inflight \in {0, 1}
    /\ Len(requests) <= Len(written) + 1
    /\ inflight = 1 => Len(written) = Len(requests) - 1
    /\ \A i \in 1..Len(written) :
           WrittenMessages(written[i]) = RawMessages(responses[i].events)

\* C8 witness: a page of two events and then a page of none are written and the
\* third request is in flight, in the sequential stream.
C8_Witness ==
    /\ reader.kind = "get"
    /\ Len(written) = 2
    /\ WrittenMessages(written[1]) = <<Some("m1"), Some("m2\n")>>
    /\ responses[2].events = Some(<< >>)
    /\ written[2] = << >>
    /\ Len(requests) = 3
    /\ inflight = 1

\* C9: exactly one outcome.  In every run that reached the execution bridge, once
\* tokio::run has returned exactly one Payload has been sent, Done for a Runner
\* that succeeded and Failure(e) for one that failed with e, and run returns Ok
\* for Done and Err(e) for Failure(e).
C9_ExactlyOneOutcome ==
    /\ Len(sent) <= 1
    /\ (callerPc \in {"recv", "returned"} /\ reader.kind # "none") =>
           /\ Len(sent) = 1
           /\ runnerResult # None
           /\ runnerResult[1].ok => sent[1] = Done
           /\ ~runnerResult[1].ok => sent[1] = Failure(runnerResult[1].e[1])
    /\ (callerPc = "returned" /\ reader.kind # "none") =>
           /\ sent[1].tag = "Done" => result = Some(Ok)
           /\ sent[1].tag = "Failure" => result = Some(Err(sent[1].e[1]))

\* C10: handoff failure is surfaced.  When the task ended without sending, the
\* caller's receive does not block, and run returns an error of kind SyncChannel.
C10_HandoffFailureSurfaced ==
    /\ (taskPc = "panicked" /\ callerPc = "recv") => recv_ready
    /\ (taskPc = "panicked" /\ callerPc = "returned") =>
           (result # None /\ ~result[1].ok /\ result[1].e[1].kind = "SyncChannel")

\* C11: configuration error before any remote call.  With neither a filter
\* expression nor a stream name, run returns an InsufficientArguments error, and
\* no page request is issued, nothing is written and the bridge is never started.
C11_ConfigurationError ==
    (options.filter_expression = None /\ options.stream_name = None) =>
        /\ requests = << >>
        /\ written = << >>
        /\ taskPc = "idle"
        /\ senders = {}
        /\ sent = << >>
        /\ callerPc \in {"start", "returned", "exited"}
        /\ callerPc # "start" =>
               /\ result # None
               /\ ~result[1].ok
               /\ result[1].e[1].kind = "InsufficientArguments"

\* C11 witness: run has returned the error for options without filter and stream.
C11_Witness ==
    /\ options.filter_expression = None
    /\ options.stream_name = None
    /\ callerPc = "returned"
    /\ result # None
    /\ result[1].e[1].kind = "InsufficientArguments"

\* C12: mode selection.  With a filter expression every page request is a
\* filtered search, a stream name being given or not; with no filter expression
\* but a stream name every page request is a sequential read of that stream.
C12_ModeSelection ==
    \A i \in 1..Len(requests) :
        /\ is_some(options.filter_expression) =>
               /\ requests[i].op = "FilterLogEvents"
               /\ requests[i].filter_pattern = options.filter_expression
        /\ (options.filter_expression = None /\ is_some(options.stream_name)) =>
               /\ requests[i].op = "GetLogEvents"
               /\ requests[i].log_stream_name = options.stream_name

\* C12 witness: filter and stream name both given, and three filtered requests.
C12_Witness ==
    /\ is_some(options.filter_expression)
    /\ is_some(options.stream_name)
    /\ Len(requests) = 3
    /\ \A i \in 1..3 : requests[i].op = "FilterLogEvents"

\* C13: a malformed record is an error outcome.  When a fetched page holds a
\* record without message or timestamp, the Runner ends with a failure, no
\* further page is requested, and the failure is what run hands to its caller.
C13_MalformedRecordIsError ==
    \A k \in 1..Len(responses) :
        (responses[k].ok
           /\ \E j \in 1..Len(unwrap_or(responses[k].events, << >>)) :
                  \/ responses[k].events[1][j].message = None
                  \/ responses[k].events[1][j].timestamp = None) =>
            /\ Len(requests) = k
            /\ taskPc # "panicked"
            /\ runnerResult # None => ~runnerResult[1].ok
            /\ callerPc \in {"returned", "exited"} => (result # None /\ ~result[1].ok)

\* C14: process exit status.  The process exits with status 0 when app::main
\* returned Ok; when it returned an error, the error is printed to the error
\* stream and the status is not 0.
C14_ExitStatus ==
    callerPc = "exited" =>
        /\ exit_status # None
        /\ result[1].ok => (exit_status[1] = 0 /\ stderr = << >>)
        /\ ~result[1].ok => (exit_status[1] # 0 /\ stderr = <<result[1].e[1]>>)

\* C16: stream tagging.  Every page keeps the order and the count of the
\* response's records; in sequential mode every event's source stream is the
\* configured stream name, in filtered mode it is the record's own stream-name
\* field (absent when the record has none); a response without an events list
\* is a page of zero events.
C16_StreamTagging ==
    /\ Len(yielded) <= Len(responses)
    /\ \A k \in 1..Len(responses) :
           responses[k].page =>
               /\ k <= Len(yielded)
               /\ LET raw == unwrap_or(responses[k].events, << >>)
                      evs == yielded[k].events
                  IN  /\ Len(evs) = Len(raw)
                      /\ responses[k].events = None => evs = << >>
                      /\ \A j \in 1..Len(raw) :
                             /\ Some(evs[j].message) = raw[j].message
                             /\ evs[j].stream_name =
                                    IF requests[k].op = "GetLogEvents"
                                    THEN options.stream_name
                                    ELSE raw[j].log_stream_name

\* C16 witness: a filtered page whose two events carry their records' own
\* stream names, one present and one absent, beside a sequential option.
C16_Witness ==
    /\ Len(yielded) >= 1
    /\ requests[1].op = "FilterLogEvents"
    /\ is_some(options.stream_name)
    /\ responses[1].events = Some(<<Rec1, Rec2>>)
    /\ yielded[1].events[1].stream_name = Some("s1")
    /\ yielded[1].events[2].stream_name = None

\* C19: request frame.  Every request of a run equals the first one in all
\* fields but the token, and the token of request k+1 is the token that
\* response k returned.
C19_RequestFrame ==
    \A k \in 1..Len(requests) :
        /\ [requests[k] EXCEPT !.next_token = None]
               = [requests[1] EXCEPT !.next_token = None]
        /\ requests[k].log_group_name = options.group_name
        /\ k > 1 => requests[k].next_token = responses[k - 1].next_token

\* C19 witness: a sequential run with time bounds whose third request carries
\* the token of the second response.
C19_Witness ==
    /\ Len(requests) = 3
    /\ requests[1].op = "GetLogEvents"
    /\ is_some(requests[1].start_time)
    /\ responses[1].next_token = Some("A")
    /\ responses[2].next_token = Some("B")
    /\ requests[3].next_token = Some("B")
    /\ requests[3].start_time = requests[1].start_time

\* C20: only an immediate echo stops.  A response token that an earlier request
\* carried, but that differs from the token of the request it answers, does not
\* end the stream: the stream stays active with that token and the next request
\* carries it.
C20_OnlyImmediateEcho ==
    \A n \in 1..Len(responses) :
        (/\ responses[n].page
         /\ is_some(responses[n].next_token)
         /\ responses[n].next_token # requests[n].next_token
         /\ \E i \in 1..(n - 1) : requests[i].next_token = responses[n].next_token) =>
            IF Len(requests) > n
            THEN requests[n + 1].next_token = responses[n].next_token
            ELSE /\ state = Running(responses[n].next_token)
                 /\ ~streamEnded
                 /\ runnerResult = None

\* C20 witness: the backend answered A, B, A and a fourth request carries A.
C20_Witness ==
    /\ Len(requests) = 4
    /\ responses[1].next_token = Some("A")
    /\ responses[2].next_token = Some("B")
    /\ responses[3].next_token = Some("A")
    /\ requests[4].next_token = Some("A")

\* C15: millisecond precision.  For every epoch-millisecond integer m, negative
\* values and values not divisible by 1000 included, from_epoch_millis(m) is an
\* instant whose epoch-millisecond value is m, and a second conversion of m
\* gives an equal instant.
C15_MillisecondPrecision ==
    probe.fn = "from_epoch_millis" =>
        /\ ~probe.out.panic
        /\ timestamp_millis(probe.out) = probe.m
        /\ probe.again = probe.out

\* The text print_events renders for the i-th event before puts: the message
\* alone in the Bare Sink, prefix, one space and message in the Prefixed Sink.
Rendered(i) ==
    IF probe.use_prefix
    THEN LogPrinter_prefix(probe.enable_color, probe.events[i]) \o <<" ">>
             \o probe.events[i].message
    ELSE probe.events[i].message

\* The number of newline characters of a text.
Newlines(text) == Cardinality({j \in 1..Len(text) : text[j] = "\n"})

\* The i-th emission is the rendered text, verbatim when that ends with a
\* newline and followed by exactly one newline otherwise.
TerminatedOnce(i) ==
    LET r == Rendered(i)
        e == probe.emitted[i]
    IN  /\ Len(e) >= Len(r)
        /\ SubSeq(e, 1, Len(r)) = r
        /\ Len(e) = Len(r) + (IF Len(r) > 0 /\ r[Len(r)] = "\n" THEN 0 ELSE 1)
        /\ e[Len(e)] = "\n"

\* C17 as stated: line termination in both sinks.  Each event produces exactly
\* one output line: its emission is the rendered text, verbatim when it ends
\* with a newline and followed by one newline otherwise, and holds exactly one
\* newline.  The Bare Sink's rendered text is the message alone.
C17_OneLinePerEvent ==
    probe.fn = "print_events" =>
        /\ Len(probe.emitted) = Len(probe.events)
        /\ \A i \in 1..Len(probe.events) :
               /\ TerminatedOnce(i)
               /\ Newlines(probe.emitted[i]) = 1

\* C17 amended: each event produces exactly one emission, the rendered text
\* verbatim when it ends with a newline and followed by exactly one newline
\* otherwise; the emission is a single output line when the rendered text has
\* no newline before its last character, and has one line more for every such
\* newline.  The Bare Sink's rendered text is the message alone.
C17_LineTermination ==
    probe.fn = "print_events" =>
        /\ Len(probe.emitted) = Len(probe.events)
        /\ \A i \in 1..Len(probe.events) :
               LET r     == Rendered(i)
                   inner == Newlines(SubSeq(r, 1, Len(r) - 1))
               IN  /\ TerminatedOnce(i)
                   /\ Newlines(probe.emitted[i]) = inner + 1
                   /\ ~probe.use_prefix =>
                          probe.emitted[i] \in {probe.events[i].message,
                                                probe.events[i].message \o <<"\n">>}

\* C17 witness: the Bare Sink printed a message with an inner newline and no
\* trailing one, then a message that ends with a newline.
C17_Witness ==
    /\ probe.fn = "print_events"
    /\ ~probe.use_prefix
    /\ Len(probe.events) = 2
    /\ probe.events[1].message = <<"a", "\n", "b">>
    /\ probe.events[2].message = <<"h", "i", "\n">>
    /\ probe.emitted = << <<"a", "\n", "b", "\n">>, <<"h", "i", "\n">> >>

\* The visible characters of a Prefixed Sink emission: with colour off the
\* emission itself, with colour on the emission without the two escape
\* sequences around the 21 characters of the prefix.
Visible(e) ==
    IF probe.enable_color THEN SubSeq(e, 6, 26) \o SubSeq(e, 31, Len(e)) ELSE e

DigitChars == {Digit(d) : d \in 0..9}

DigitValue(c) == CHOOSE d \in 0..9 : Digit(d) = c

\* The number written in characters from..to of a text.
Number(text, from, to) ==
    LET RECURSIVE Upto(_)
        Upto(j) == IF j < from THEN 0 ELSE 10 * Upto(j - 1) + DigitValue(text[j])
    IN  Upto(to)

IsLeapYear(y) == (y % 4 = 0 /\ y % 100 # 0) \/ y % 400 = 0

DaysInMonth(y, m) ==
    IF m = 2 THEN (IF IsLeapYear(y) THEN 29 ELSE 28)
    ELSE IF m \in {4, 6, 9, 11} THEN 30 ELSE 31

\* Days from 1970-01-01 to the given calendar date, by counting whole years
\* and whole months.
DaysFromEpoch(y, m, d) ==
    LET RECURSIVE MonthsBefore(_)
        MonthsBefore(k) == IF k = 0 THEN 0 ELSE MonthsBefore(k - 1) + DaysInMonth(y, k)
    IN  365 * (y - 1970) + (y - 1969) \div 4 - (y - 1901) \div 100 + (y - 1601) \div 400
            + MonthsBefore(m - 1) + (d - 1)

\* The local date and time, nine hours ahead of UTC, of the rollover instants,
\* as <<year, month, day, hour, minute, second>>.
ExpectedLocal(secs) ==
    CASE secs = 1672531200 -> <<2023, 1, 1, 9, 0, 0>>
      [] secs = 0          -> <<1970, 1, 1, 9, 0, 0>>
      [] secs = 1672585199 -> <<2023, 1, 1, 23, 59, 59>>
      [] secs = 1672585200 -> <<2023, 1, 2, 0, 0, 0>>
      [] secs = 1675177199 -> <<2023, 1, 31, 23, 59, 59>>
      [] secs = 1675177200 -> <<2023, 2, 1, 0, 0, 0>>
      [] secs = 1672498799 -> <<2022, 12, 31, 23, 59, 59>>
      [] secs = 1672498800 -> <<2023, 1, 1, 0, 0, 0>>
      [] secs = 1709132400 -> <<2024, 2, 29, 0, 0, 0>>
      [] secs = 1677596400 -> <<2023, 3, 1, 0, 0, 0>>
      [] secs = 951750000  -> <<2000, 2, 29, 0, 0, 0>>
      [] secs = -32400     -> <<1970, 1, 1, 0, 0, 0>>
      [] secs = -32401     -> <<1969, 12, 31, 23, 59, 59>>
      [] secs = -86400     -> <<1969, 12, 31, 9, 0, 0>>

\* C18: Prefixed Sink time.  For every event the emission reads
\* [YYYY-MM-DD HH:MM:SS], one space, the message; the date and time shown are a
\* valid calendar date and time exactly nine hours after the event's UTC
\* timestamp, across day, month and year boundaries; 2023-01-01T00:00:00Z with
\* message hello is written as [2023-01-01 09:00:00] hello when colour is off.
C18_PrefixedSinkTime ==
    (probe.fn = "print_events" /\ probe.use_prefix) =>
        \A i \in 1..Len(probe.events) :
            LET ev == probe.events[i]
                v  == Visible(probe.emitted[i])
                y  == Number(v, 2, 5)
                mo == Number(v, 7, 8)
                d  == Number(v, 10, 11)
                h  == Number(v, 13, 14)
                mi == Number(v, 16, 17)
                sc == Number(v, 19, 20)
            IN  /\ Len(v) >= 22 + Len(ev.message)
                /\ v[1] = "[" /\ v[6] = "-" /\ v[9] = "-" /\ v[12] = " "
                /\ v[15] = ":" /\ v[18] = ":" /\ v[21] = "]" /\ v[22] = " "
                /\ \A j \in {2, 3, 4, 5, 7, 8, 10, 11, 13, 14, 16, 17, 19, 20} :
                       v[j] \in DigitChars
                /\ SubSeq(v, 23, 22 + Len(ev.message)) = ev.message
                /\ mo \in 1..12 /\ d \in 1..DaysInMonth(y, mo)
                /\ h \in 0..23 /\ mi \in 0..59 /\ sc \in 0..59
                /\ DaysFromEpoch(y, mo, d) * 86400 + h * 3600 + mi * 60 + sc
                       = ev.timestamp.secs + 9 * 3600
                /\ <<y, mo, d, h, mi, sc>> = ExpectedLocal(ev.timestamp.secs)
                /\ (ev.timestamp.secs = 1672531200 /\ ev.message = Hello
                      /\ ~probe.enable_color) =>
                       probe.emitted[i] = <<"[", "2", "0", "2", "3", "-", "0", "1", "-", "0", "1", " ", "0", "9", ":", "0", "0", ":", "0", "0", "]", " ", "h", "e", "l", "l", "o", "\n">>

\* C18 witness: with colour off the Prefixed Sink printed hello of
\* 2022-12-31T15:00:00Z, the year's last day in UTC, under the next year's date.
C18_Witness ==
    /\ probe.fn = "print_events"
    /\ probe.use_prefix
    /\ ~probe.enable_color
    /\ Len(probe.events) = 1
    /\ probe.events[1].timestamp.secs = 1672498800
    /\ probe.events[1].message = Hello
    /\ probe.emitted[1] = <<"[", "2", "0", "2", "3", "-", "0", "1", "-", "0", "1", " ", "0", "0", ":", "0", "0", ":", "0", "0", "]", " ", "h", "e", "l", "l", "o", "\n">>

\* Response k ends the pagination: it is a failure, carries no token, or echoes
\* the token of the request it answers.
Terminating(k) ==
    \/ ~responses[k].ok
    \/ responses[k].next_token = None
    \/ responses[k].next_token = requests[k].next_token

\* The caller waits in recv on an empty channel that still has a Sender, and
\* the task will take no further step.
RunBlocked ==
    /\ callerPc = "recv"
    /\ chan = << >>
    /\ senders # {}
    /\ taskPc \in {"done", "panicked"}

\* C21: run completes.  Once some response has failed, carried no token or
\* echoed the token just sent, no further request is issued, the run is never
\* left waiting for an outcome that cannot come, and when run has returned
\* exactly one outcome was delivered.
C21_RunCompletes ==
    \A k \in 1..Len(responses) :
        Terminating(k) =>
            /\ Len(requests) = k
            /\ ~RunBlocked
            /\ callerPc \in {"returned", "exited"} => Len(sent) = 1

\* C22: caller returns last.  When a run that started the background task has
\* returned, the task has completed and sent its one outcome, nothing is in
\* flight, and from then on no request is issued and nothing is written; a
\* caller that receives after the task completed finds the message queued.
C22_CallerReturnsLast ==
    /\ []((callerPc = "recv" /\ taskPc = "done") => chan # << >>)
    /\ []((callerPc \in {"returned", "exited"} /\ taskPc # "idle") =>
              (taskPc = "done" /\ Len(sent) = 1 /\ inflight = 0
                 /\ Len(written) = Len(yielded)))
    /\ [][(callerPc \in {"returned", "exited"}) =>
              (requests' = requests /\ written' = written /\ sent' = sent)]_vars

\* C22 witness: run has returned Ok after a task that printed two pages.
C22_Witness ==
    /\ callerPc = "returned"
    /\ taskPc = "done"
    /\ Len(written) = 2
    /\ result # None
    /\ result[1].ok

\* C24: time-bound units.  A configured start or end bound is sent in every
\* request as the epoch-millisecond value of its instant, the unit of the event
\* timestamps from_epoch_millis decodes; an absent bound is sent as absent.
C24_TimeBoundUnits ==
    \A k \in 1..Len(requests) :
        /\ requests[k].start_time =
               IF options.start_time = None THEN None
               ELSE Some(timestamp_millis(options.start_time[1]))
        /\ requests[k].end_time =
               IF options.end_time = None THEN None
               ELSE Some(timestamp_millis(options.end_time[1]))

\* C26: filtered mode does not narrow by stream.  With a filter expression and
\* a stream name both supplied, every request is a filtered search with an
\* absent stream set, and the stream name is in no request.
C26_FilterDoesNotNarrow ==
    (is_some(options.filter_expression) /\ is_some(options.stream_name)) =>
        \A k \in 1..Len(requests) :
            /\ requests[k].op = "FilterLogEvents"
            /\ requests[k].log_stream_names = None
            /\ requests[k].log_stream_name = None

\* C26 witness: a filtered run given a stream name as well has issued two
\* requests, the second with a token.
C26_Witness ==
    /\ is_some(options.filter_expression)
    /\ options.stream_name = Some("s0")
    /\ Len(requests) = 2
    /\ requests[2].next_token = Some("B")
    /\ requests[2].log_stream_names = None

\* C23: an empty page is not an end marker.  A successful response with zero
\* events or no events list, whose token is present and differs from the token
\* of the request it answers, is yielded as a page without events, reaches the
\* sink as one write without events, and is followed by a request that carries
\* the new token.
C23_EmptyPageContinues ==
    \A k \in 1..Len(responses) :
        (/\ responses[k].ok
         /\ responses[k].events \in {None, Some(<< >>)}
         /\ is_some(responses[k].next_token)
         /\ responses[k].next_token # requests[k].next_token) =>
            /\ Len(yielded) >= k
            /\ yielded[k].events = << >>
            /\ Len(written) >= k => written[k] = << >>
            /\ Len(written) < k => taskPc = "print"
            /\ IF Len(requests) > k
               THEN requests[k + 1].next_token = responses[k].next_token
               ELSE /\ state = Running(responses[k].next_token)
                    /\ ~streamEnded
                    /\ runnerResult = None

\* C25: the two streams paginate identically.  Given the same responses, the
\* sequential and the filtered stream have issued the same request tokens,
\* yielded the same number of pages, and ended, if at all, at the same step in
\* the same way.
C25_StreamsPaginateIdentically ==
    probe.fn = "pair" =>
        /\ probe.get.tokens = probe.filter.tokens
        /\ probe.get.pages = probe.filter.pages
        /\ probe.get.outcome = probe.filter.outcome
        /\ probe.get.awaiting = probe.filter.awaiting

====
